---- MODULE Spec2Model ----
(***************************************************************************)
(* Model of scripts/generate-cards.py: the batch generation pipeline that  *)
(* reads the lemmas of the vocabulary file, loads the card store, filters  *)
(* the lemmas that still need cards, sends                                 *)
(* them to the generation service in batches with a retry/backoff loop,    *)
(* validates the responses, and merges and saves the store after each      *)
(* batch.                                                                  *)
(*                                                                         *)
(* Lemmas are numbered by their rank in the deduplicated vocabulary: lemma *)
(* n is the n-th distinct lemma of words.csv.  Key 0 stands for a string   *)
(* that is not a lemma of the vocabulary.  Durations are in seconds.       *)
(***************************************************************************)
EXTENDS Integers, Sequences, FiniteSets, TLC

(***************************************************************************)
(* Bounds of the model and constants of the program.                       *)
(***************************************************************************)
\* number of distinct lemmas in the vocabulary file
MaxVocab == 3
\* number of rows after the two header rows, and number of distinct words, in
\* the vocabulary files extract_lemmas is checked on
MaxRows == 3
MaxWords == 2

\* a retry cap one higher than the program's
OneMoreRetry == 5 + 1
MAX_RETRIES == 5
MAX_RPM == 10
SLEEP_BETWEEN == (60 \div MAX_RPM) + 2

Lemmas == 1..MaxVocab
Keys == 0..MaxVocab
ExtraKey == CHOOSE key \in Keys : key \notin Lemmas

(***************************************************************************)
(* words.csv as csv.reader yields it: a sequence of rows, a row being a    *)
(* sequence of cells.  The text of a cell is `lead` spaces, a word, `trail`*)
(* spaces; words are numbered from 1 and word 0 is the empty text.         *)
(***************************************************************************)
Cell(lead, word, trail) == [lead |-> lead, word |-> word, trail |-> trail]

\* a strip that leaves the text as it is
strip_nothing(text) == text
\* str.strip()
strip(text) == Cell(0, text.word, 0)
\* truthiness of a str: it is not ""
NonEmpty(text) == text.word # 0 \/ text.lead + text.trail > 0

\* the loop of extract_lemmas over the rows from row j on
RECURSIVE ExtractFrom(_, _, _)
ExtractFrom(rows, j, lemmas) ==
    IF j > Len(rows) THEN lemmas
    ELSE LET row == rows[j] IN
         IF Len(row) > 1
         THEN LET lemme == strip(row[2]) IN
              IF NonEmpty(lemme) /\ lemme \notin { lemmas[n] : n \in DOMAIN lemmas }
              THEN ExtractFrom(rows, j + 1, Append(lemmas, lemme))
              ELSE ExtractFrom(rows, j + 1, lemmas)
         ELSE ExtractFrom(rows, j + 1, lemmas)

\* extract_lemmas: the two next(reader) raise StopIteration on a file with
\* fewer than two rows
extract_lemmas(rows) ==
    IF Len(rows) < 2 THEN [raised |-> "StopIteration", lemmas |-> <<>>]
    ELSE [raised |-> "", lemmas |-> ExtractFrom(rows, 3, <<>>)]

\* the cells and rows of the vocabulary files
Cells ==
    { Cell(pad, word, pad) : pad \in {0, 1}, word \in 0..MaxWords }
FreqCell == Cell(0, 0, 0)
DataRows ==
    { <<>>, <<Cell(0, 1, 0)>>, <<FreqCell, Cell(0, 1, 0), Cell(0, 1, 0)>> }
    \cup { <<FreqCell, c>> : c \in Cells }
HeaderRows == { <<>>, <<FreqCell, Cell(0, 1, 0)>> }
CsvFiles ==
    { <<>> } \cup { <<h>> : h \in HeaderRows }
    \cup { <<h1, h2>> \o d :
             h1 \in HeaderRows, h2 \in HeaderRows,
             d \in UNION { [1..n -> DataRows] : n \in 0..MaxRows } }

\* the number a lemma has in the rest of the model: its rank in the list
Ranks(lemmas) == [j \in DOMAIN lemmas |-> j]

\* the words.csv of a run of main: headers, then n distinct words in padded
\* cells, the first of them a second time
WordsFile(n) ==
    << <<FreqCell, Cell(0, 1, 0)>>, <<FreqCell, Cell(0, 1, 0)>> >>
    \o [j \in 1..n |-> <<FreqCell, Cell(1, j, 1)>>]
    \o (IF n > 0 THEN << <<FreqCell, Cell(0, 1, 0)>> >> ELSE <<>>)
WordsFiles == { WordsFile(n) : n \in {0, MaxVocab} }

(***************************************************************************)
(* JSON values of a response.  A field of a candidate is described by the  *)
(* shape of its value, which is all that validate_card looks at:           *)
(*   sentence:  ABSENT (.get gives ""), EMPTY "", NOBLANK "il est la",     *)
(*              BLANK "il est ___", NUMBER 5, LISTBLANK ["___"]            *)
(*   hint:      ABSENT (.get gives ""), EMPTY "", TEXT "to be"             *)
(*   answers:   ABSENT (.get gives []), EMPTYLIST [], LIST ["est"],        *)
(*              STRING "est"                                               *)
(***************************************************************************)
Candidate(d, s, h, a) ==
    [isdict |-> d, sentence |-> s, hint |-> h, acceptedAnswers |-> a]

NotADict == Candidate(FALSE, "ABSENT", "ABSENT", "ABSENT")

Valid == Candidate(TRUE, "BLANK", "TEXT", "LIST")
ListSentence == Candidate(TRUE, "LISTBLANK", "TEXT", "LIST")
NoBlank == Candidate(TRUE, "NOBLANK", "TEXT", "LIST")
EmptyAnswers == Candidate(TRUE, "BLANK", "TEXT", "EMPTYLIST")
NoHint == Candidate(TRUE, "BLANK", "ABSENT", "LIST")
StringAnswers == Candidate(TRUE, "BLANK", "TEXT", "STRING")
NumberSentence == Candidate(TRUE, "NUMBER", "TEXT", "LIST")

Candidates ==
    { Valid, ListSentence, NoBlank, EmptyAnswers, NoHint, StringAnswers,
      NumberSentence, NotADict }

\* Python truthiness of a field value
Truthy(shape) == shape \notin {"ABSENT", "EMPTY", "EMPTYLIST"}
\* `"___" in sentence` raises TypeError when sentence is not a container
InRaises(shape) == shape = "NUMBER"
\* a blank-marker test that lets every sentence through
InBlankAny(shape) == TRUE
\* `"___" in sentence`
InBlank(shape) == shape \in {"BLANK", "LISTBLANK"}
\* isinstance(answers, list)
IsList(shape) == shape \in {"LIST", "EMPTYLIST"}

\* the dict validate_card appends for a candidate it keeps
Card(c) ==
    [sentence |-> c.sentence, hint |-> c.hint,
     acceptedAnswers |-> c.acceptedAnswers]

(***************************************************************************)
(* The value found under a key of the response object.  A list, a string   *)
(* or an object can be iterated (a string or an object yields items that   *)
(* are not dicts); a number, a boolean or null cannot.                     *)
(***************************************************************************)
Absent == [present |-> FALSE, iterable |-> FALSE, items |-> <<>>]
Scalar == [present |-> TRUE, iterable |-> FALSE, items |-> <<>>]
ListOf(cs) == [present |-> TRUE, iterable |-> TRUE, items |-> cs]

\* The values the service is taken to send under a key: every branch of
\* validate_card is reached alone, and after or before a card that is kept.
LemmaValues ==
    { Scalar,
      ListOf(<<>>),
      ListOf(<<Valid>>),
      ListOf(<<Valid, ListSentence>>),
      ListOf(<<NoBlank, Valid>>),
      ListOf(<<Valid, EmptyAnswers>>),
      ListOf(<<ListSentence, NoHint>>),
      ListOf(<<NoBlank>>),
      ListOf(<<StringAnswers>>),
      ListOf(<<NotADict>>),
      ListOf(<<NumberSentence>>),
      ListOf(<<Valid, NumberSentence>>) }

(***************************************************************************)
(* validate_card: the list of the cards kept, or a TypeError raised by     *)
(* iterating a non-iterable value or by `"___" not in sentence`.           *)
(***************************************************************************)
RECURSIVE ValidateFrom(_, _, _)
ValidateFrom(cards, j, valid) ==
    IF j > Len(cards) THEN [raised |-> FALSE, valid |-> valid]
    ELSE LET card == cards[j] IN
         IF ~card.isdict THEN ValidateFrom(cards, j + 1, valid)
         ELSE IF ~Truthy(card.sentence) \/ ~Truthy(card.hint)
                    \/ ~Truthy(card.acceptedAnswers)
              THEN ValidateFrom(cards, j + 1, valid)
         ELSE IF InRaises(card.sentence)
              THEN [raised |-> TRUE, valid |-> <<>>]
         ELSE IF ~InBlank(card.sentence)
              THEN ValidateFrom(cards, j + 1, valid)
         ELSE IF ~IsList(card.acceptedAnswers)
              THEN ValidateFrom(cards, j + 1, valid)
         ELSE ValidateFrom(cards, j + 1, Append(valid, Card(card)))

validate_card(value) ==
    IF ~value.iterable THEN [raised |-> TRUE, valid |-> <<>>]
    ELSE ValidateFrom(value.items, 1, <<>>)

(***************************************************************************)
(* A Python dict, in insertion order: a sequence of items [k, v] with      *)
(* distinct keys.                                                          *)
(***************************************************************************)
Item(key, val) == [k |-> key, v |-> val]

DictKeys(items) == { items[j].k : j \in DOMAIN items }

DictGet(items, key) == items[CHOOSE j \in DOMAIN items : items[j].k = key].v

\* d[key] = val: an old key keeps its place, a new key goes last
DictPut(items, key, val) ==
    IF key \in DictKeys(items)
    THEN [j \in DOMAIN items |->
            IF items[j].k = key THEN Item(key, val) ELSE items[j]]
    ELSE Append(items, Item(key, val))

\* an update that replaces the dict by the other one
DictReplace(items, other) == other

\* dict.update(other)
RECURSIVE DictUpdate(_, _)
DictUpdate(items, other) ==
    IF other = <<>> THEN items
    ELSE DictUpdate(DictPut(items, Head(other).k, Head(other).v), Tail(other))

(***************************************************************************)
(* The output file.  Its text is a sequence of tokens: json.dump writes    *)
(* an object as "{", one entry per item, "}".                              *)
(***************************************************************************)
Tok(type, key, val) == [t |-> type, k |-> key, v |-> val]
OpenBrace == Tok("{", 0, <<>>)
CloseBrace == Tok("}", 0, <<>>)
OpenBracket == Tok("[", 0, <<>>)
CloseBracket == Tok("]", 0, <<>>)
Number == Tok("number", 0, <<>>)
Junk == Tok("junk", 0, <<>>)
Entry(item) == Tok("entry", item.k, item.v)
Element(key) == Tok("element", key, <<>>)

TextFile(toks) == [kind |-> "text", toks |-> toks]
Missing == [kind |-> "missing", toks |-> <<>>]
Unreadable == [kind |-> "unreadable", toks |-> <<>>]
BadUtf8 == [kind |-> "badutf8", toks |-> <<>>]

\* a dump that misses the newest item of the dict
json_dump_stale(items) ==
    <<OpenBrace>>
    \o [j \in 1..(Len(items) - 1) |-> Entry(items[j])]
    \o <<CloseBrace>>

json_dump(items) ==
    <<OpenBrace>> \o [j \in DOMAIN items |-> Entry(items[j])] \o <<CloseBrace>>

\* json.load: the value parsed, or JSONDecodeError
json_load(toks) ==
    IF Len(toks) >= 2 /\ toks[1] = OpenBrace /\ toks[Len(toks)] = CloseBrace
       /\ \A j \in 2..(Len(toks) - 1) : toks[j].t = "entry"
    THEN [ok |-> TRUE, type |-> "dict",
          items |-> DictUpdate(<<>>, [j \in 1..(Len(toks) - 2) |->
                                        Item(toks[j + 1].k, toks[j + 1].v)])]
    ELSE IF Len(toks) >= 2 /\ toks[1] = OpenBracket
            /\ toks[Len(toks)] = CloseBracket
            /\ \A j \in 2..(Len(toks) - 1) : toks[j].t = "element"
    THEN [ok |-> TRUE, type |-> "list",
          items |-> [j \in 1..(Len(toks) - 2) |-> Item(toks[j + 1].k, <<>>)]]
    ELSE IF toks = <<Number>>
    THEN [ok |-> TRUE, type |-> "number", items |-> <<>>]
    ELSE [ok |-> FALSE, type |-> "dict", items |-> <<>>]

EmptyDict == [type |-> "dict", items |-> <<>>]

\* load_existing: the value returned, or the exception that escapes
load_existing(f) ==
    IF f.kind = "missing" THEN [raised |-> "", value |-> EmptyDict]
    ELSE IF f.kind = "unreadable" THEN [raised |-> "", value |-> EmptyDict]
    ELSE IF f.kind = "badutf8"
    THEN [raised |-> "UnicodeDecodeError", value |-> EmptyDict]
    ELSE LET parsed == json_load(f.toks) IN
         IF parsed.ok
         THEN [raised |-> "",
               value |-> [type |-> parsed.type, items |-> parsed.items]]
         ELSE [raised |-> "", value |-> EmptyDict]

(***************************************************************************)
(* Inputs of a run and responses of the generation service.                *)
(***************************************************************************)
\* values of --count
Counts == 0..(MaxVocab - 1)
\* values of --batch-size
BatchSizes == {-1, 0, 1, 2}
\* vocabularies: the first n distinct lemmas
Vocabularies == { Ranks(extract_lemmas(f).lemmas) : f \in WordsFiles }

StoredCards == <<Card(Valid)>>

\* the output file before the first run
InitialFiles ==
    { Missing, Unreadable, BadUtf8,
      TextFile(<<Junk>>),
      TextFile(<<Number>>),
      TextFile(<<OpenBracket, Element(1), CloseBracket>>),
      TextFile(json_dump(<<>>)),
      TextFile(json_dump(<<Item(1, StoredCards)>>)),
      TextFile(json_dump(<<Item(ExtraKey, StoredCards), Item(2, StoredCards)>>)) }

\* "retry in <x>s" of a rate-limit message: <<>> when the message has none,
\* else <<x>> with x in tenths of a second
RetryHints == {<<17>>, <<1234>>}
NO_HINT == <<>>
\* "retry in 1.2.3s": a text the pattern [\d.]+ matches and float() rejects,
\* as the groups of digits between its dots
BAD_HINT == <<1, 2, 3>>
\* float(retry_match.group(1)) raises ValueError
FloatRaises(hint) == Len(hint) > 1

Response(kind, data, hint) == [kind |-> kind, data |-> data, hint |-> hint]
NoData == [key \in Keys |-> Absent]
NoResponse == Response("none", NoData, NO_HINT)

\* response objects: a value or nothing under each lemma of the batch, and
\* nothing, a list with a valid card or a number under every other key
JsonData(lemmas) ==
    { [key \in Keys |-> IF key \in lemmas THEN d[key] ELSE other] :
        d \in [lemmas -> LemmaValues \cup {Absent}],
        other \in {Absent, ListOf(<<Valid>>), Scalar} }

Responses(lemmas) ==
    { Response("json", d, NO_HINT) : d \in JsonData(lemmas) }
    \cup { Response(kind, NoData, NO_HINT) :
             kind \in {"parse_error", "not_object", "api_error", "rate_limit"} }
    \cup { Response("rate_limit", NoData, h) : h \in RetryHints \cup {BAD_HINT} }

Range(seq) == { seq[j] : j \in DOMAIN seq }
Min(a, b) == IF a < b THEN a ELSE b
Max(a, b) == IF a > b THEN a ELSE b



(***************************************************************************)
(* generate_batch: one attempt.                                            *)
(***************************************************************************)
\* a loop that goes over every key of the response rather than over the
\* lemmas of the batch
RECURSIVE ValidateKeys(_, _, _)
ValidateKeys(data, keys, res) ==
    IF keys = <<>> THEN [raised |-> FALSE, result |-> res]
    ELSE LET key == Head(keys) IN
         IF data[key].present
         THEN LET validated == validate_card(data[key]) IN
              IF validated.raised THEN [raised |-> TRUE, result |-> <<>>]
              ELSE IF validated.valid # <<>>
              THEN ValidateKeys(data, Tail(keys),
                                DictPut(res, key, validated.valid))
              ELSE ValidateKeys(data, Tail(keys), res)
         ELSE ValidateKeys(data, Tail(keys), res)

ValidateEveryKey(data, lemmas, res) ==
    ValidateKeys(data, [j \in 1..Cardinality(Keys) |-> j - 1], res)

\* the loop over the lemmas of the batch: the result built, or a TypeError
RECURSIVE ValidateBatch(_, _, _)
ValidateBatch(data, lemmas, res) ==
    IF lemmas = <<>> THEN [raised |-> FALSE, result |-> res]
    ELSE LET lemma == Head(lemmas) IN
         IF data[lemma].present
         THEN LET validated == validate_card(data[lemma]) IN
              IF validated.raised THEN [raised |-> TRUE, result |-> <<>>]
              ELSE IF validated.valid # <<>>
              THEN ValidateBatch(data, Tail(lemmas),
                                 DictPut(res, lemma, validated.valid))
              ELSE ValidateBatch(data, Tail(lemmas), res)
         ELSE ValidateBatch(data, Tail(lemmas), res)

\* which handler an attempt ends in: "return", "json_error" (the
\* json.JSONDecodeError handler), "rate_limit" or "api_error" (the two
\* branches of the Exception handler), or "raise" when the rate-limit
\* branch itself raises
Outcome(resp, lemmas) ==
    IF resp.kind = "json"
    THEN IF ValidateBatch(resp.data, lemmas, <<>>).raised
         THEN "api_error" ELSE "return"
    ELSE IF resp.kind = "parse_error" THEN "json_error"
    ELSE IF resp.kind = "rate_limit"
    THEN IF FloatRaises(resp.hint) THEN "raise" ELSE "rate_limit"
    ELSE "api_error"

\* a rate-limit wait that takes the hint without the max() with the default
RateLimitWaitNoMax(hint, att) ==
    IF hint # <<>> THEN (hint[1] \div 10) + 5 ELSE 30 * att

\* the wait of the rate-limit branch
RateLimitWait(hint, att) ==
    IF hint # <<>> THEN Max((hint[1] \div 10) + 5, 30 * att) ELSE 30 * att

\* whether the handler sleeps, and how long
Sleeps(outcome, att) == outcome = "rate_limit" \/ att < MAX_RETRIES
Backoff(outcome, hint, att) ==
    IF outcome = "rate_limit" THEN RateLimitWait(hint, att) ELSE 2 ^ att

(***************************************************************************)
(* main                                                                    *)
(***************************************************************************)
\* a target that takes the whole vocabulary whatever --count says
TargetAll(all, cnt) == all

\* all_lemmas[:count]
Target(all, cnt) ==
    LET c == IF cnt > 0 THEN cnt ELSE Len(all) IN SubSeq(all, 1, Min(c, Len(all)))

\* a filter that keeps the lemmas the store already has
RemainingUnfiltered(target, ex) == target

\* [l for l in target_lemmas if l not in existing]
Remaining(target, ex) ==
    SelectSeq(target, LAMBDA l : l \notin DictKeys(ex.items))

\* [remaining[i:i + size] for i in range(0, len(remaining), size)], size # 0
Batches(rem, size) ==
    IF size < 0 THEN <<>>
    ELSE [j \in 1..((Len(rem) + size - 1) \div size) |->
            SubSeq(rem, (j - 1) * size + 1, Min(j * size, Len(rem)))]

VARIABLES
    rows,              \* the rows of words.csv
    lemmas,            \* extract_lemmas: lemmas
    all_lemmas,        \* extract_lemmas(CSV_PATH), each lemma as its rank
    count,             \* args.count
    batch_size,        \* args.batch_size
    file,              \* the output file on disk
    run,               \* 1 in the first run of main, 2 in the second
    pc,                \* where the run is
    error,             \* the exception that ended the run, or ""
    existing,          \* main: existing
    loaded,            \* what load_existing returned in this run
    remaining,         \* main: remaining
    batches,           \* main: batches
    i,                 \* main: number of the batch in progress, from 1
    attempt,           \* generate_batch: attempt
    response,          \* what the service answered to the last call
    result,            \* what generate_batch returned
    slept,             \* duration of the last backoff sleep of this batch
    last_outcome,      \* the handler the last failed attempt ended in
    last_hint,         \* the retry hint of the last failed attempt
    before,            \* the failed attempt before the last one, if it slept
    exhausted,         \* the batches of this run that used up every attempt
    calls,             \* service calls made for the batch in progress
    generated_count,   \* main: generated_count
    failed_lemmas,     \* main: failed_lemmas
    pause,             \* duration of the inter-batch sleep in progress, or 0
    first_file         \* the output file when the first run ended

vars ==
    << rows, lemmas, all_lemmas, count, batch_size, file, run, pc, error, existing, loaded,
       remaining, batches, i, attempt, response, result, slept, last_outcome,
       last_hint, before, exhausted, calls, generated_count, failed_lemmas,
       pause, first_file >>

inputs == << rows, lemmas, all_lemmas, count, batch_size >>
history == << first_file >>
locals == << attempt, response, slept, last_outcome, last_hint, before, calls >>

NoSleep == [outcome |-> "", hint |-> NO_HINT, slept |-> 0]

Init ==
    /\ rows \in WordsFiles
    /\ lemmas = extract_lemmas(rows).lemmas
    /\ all_lemmas = Ranks(lemmas)
    /\ count \in Counts
    /\ batch_size \in BatchSizes
    /\ file \in InitialFiles
    /\ run = 1
    /\ pc = "load"
    /\ error = ""
    /\ existing = EmptyDict
    /\ loaded = EmptyDict
    /\ remaining = <<>>
    /\ batches = <<>>
    /\ i = 0
    /\ attempt = 0
    /\ response = NoResponse
    /\ result = <<>>
    /\ slept = 0
    /\ last_outcome = ""
    /\ last_hint = NO_HINT
    /\ before = NoSleep
    /\ exhausted = {}
    /\ calls = 0
    /\ generated_count = 0
    /\ failed_lemmas = <<>>
    /\ pause = 0
    /\ first_file = Missing

\* the run ends with an exception
Abort(exc) ==
    /\ pc' = "aborted"
    /\ error' = exc

\* main, from reading the lemmas to the first call of generate_batch
Load ==
    /\ pc = "load"
    /\ LET got == load_existing(file)
           ex == got.value
           rem == Remaining(Target(all_lemmas, count), ex)
       IN
       IF got.raised # ""
       THEN /\ Abort(got.raised)
            /\ UNCHANGED << existing, loaded, remaining, batches, i, attempt >>
       ELSE IF ex.type = "number"
       THEN \* len(existing)
            /\ Abort("TypeError")
            /\ existing' = ex
            /\ loaded' = ex
            /\ UNCHANGED << remaining, batches, i, attempt >>
       ELSE /\ existing' = ex
            /\ loaded' = ex
            /\ remaining' = rem
            /\ IF rem = <<>>
               THEN /\ pc' = "returned"
                    /\ UNCHANGED << error, batches, i, attempt >>
               ELSE IF batch_size = 0
               THEN \* range() arg 3 must not be zero
                    /\ Abort("ValueError")
                    /\ UNCHANGED << batches, i, attempt >>
               ELSE /\ batches' = Batches(rem, batch_size)
                    /\ error' = error
                    /\ IF batches' = <<>>
                       THEN pc' = "done" /\ UNCHANGED << i, attempt >>
                       ELSE pc' = "call" /\ i' = 1 /\ attempt' = 1
    /\ UNCHANGED << inputs, history, file, run, response, result, slept,
                    last_outcome, last_hint, before, exhausted, calls,
                    generated_count, failed_lemmas, pause >>

\* generate_batch has returned: its locals are gone
Return(res) ==
    /\ result' = res
    /\ pc' = "merge"
    /\ attempt' = 0
    /\ slept' = 0
    /\ before' = NoSleep

\* generate_batch has left its loop after the last attempt failed
GiveUp ==
    /\ Return(<<>>)
    /\ exhausted' = exhausted \cup {i}

\* one pass of the retry loop: the call, the parsing and validation of the
\* response, and the handler's choice to sleep, to go on or to give up
Attempt ==
    /\ pc = "call"
    /\ \E resp \in Responses(Range(batches[i])) :
         LET outcome == Outcome(resp, batches[i]) IN
         /\ response' = resp
         /\ calls' = calls + 1
         /\ IF outcome = "return"
            THEN /\ Return(ValidateBatch(resp.data, batches[i], <<>>).result)
                 /\ last_outcome' = ""
                 /\ last_hint' = NO_HINT
                 /\ UNCHANGED << error, exhausted >>
            ELSE IF outcome = "raise"
            THEN \* the exception leaves generate_batch and main
                 /\ Abort("ValueError")
                 /\ last_outcome' = outcome
                 /\ last_hint' = resp.hint
                 /\ UNCHANGED << result, attempt, slept, before, exhausted >>
            ELSE /\ last_outcome' = outcome
                 /\ last_hint' = resp.hint
                 /\ error' = error
                 /\ IF Sleeps(outcome, attempt)
                    THEN /\ pc' = "backoff"
                         /\ slept' = Backoff(outcome, resp.hint, attempt)
                         /\ before' = [outcome |-> last_outcome,
                                       hint |-> last_hint, slept |-> slept]
                         /\ UNCHANGED << result, attempt, exhausted >>
                    ELSE GiveUp
    /\ UNCHANGED << inputs, history, file, run, existing, loaded,
                    remaining, batches, i, generated_count, failed_lemmas,
                    pause >>

\* time.sleep of a handler returns: the response and the exception are
\* dropped, and the next attempt or the end of the loop follows
Wake ==
    /\ pc = "backoff"
    /\ IF attempt < MAX_RETRIES
       THEN /\ attempt' = attempt + 1
            /\ pc' = "call"
            /\ UNCHANGED << result, slept, before, exhausted >>
       ELSE GiveUp
    /\ response' = NoResponse
    /\ UNCHANGED << inputs, history, file, run, error, existing, loaded,
                    remaining, batches, i, last_outcome, last_hint, calls,
                    generated_count, failed_lemmas, pause >>

\* a test that takes the batch number as if it counted from 0
AfterBatchOffByOne ==
    IF i < Len(batches) - 1 THEN "sleep_between" ELSE "done"

\* where main goes after a batch
AfterBatch == IF i < Len(batches) THEN "sleep_between" ELSE "done"

\* how long main sleeps after a batch
Pause == IF AfterBatch = "sleep_between" THEN SLEEP_BETWEEN ELSE 0

\* main: the result of generate_batch goes into existing and failed_lemmas
Merge ==
    /\ pc = "merge"
    /\ IF result # <<>>
       THEN IF existing.type # "dict"
            THEN \* 'list' object has no attribute 'update'
                 /\ Abort("AttributeError")
                 /\ UNCHANGED << existing, generated_count, failed_lemmas,
                                 pause >>
            ELSE /\ existing' =
                       [existing EXCEPT !.items = DictUpdate(@, result)]
                 /\ generated_count' = generated_count + Len(result)
                 /\ failed_lemmas' = failed_lemmas \o
                       SelectSeq(batches[i],
                                 LAMBDA l : l \notin DictKeys(result))
                 /\ pc' = "save"
                 /\ error' = error
                 /\ pause' = pause
       ELSE /\ failed_lemmas' = failed_lemmas \o batches[i]
            /\ pc' = AfterBatch
            /\ pause' = Pause
            /\ UNCHANGED << error, existing, generated_count >>
    /\ response' = NoResponse
    /\ last_outcome' = ""
    /\ last_hint' = NO_HINT
    /\ calls' = 0
    /\ UNCHANGED << inputs, history, file, run, loaded, remaining, batches,
                    i, attempt, result, slept, before, exhausted >>

\* save_output: open(output_path, "w") truncates the file
SaveOpen ==
    /\ pc = "save"
    /\ file' = TextFile(<<>>)
    /\ pc' = "write"
    /\ UNCHANGED << inputs, history, run, error, existing, loaded, remaining,
                    batches, i, locals, result, exhausted, generated_count,
                    failed_lemmas, pause >>

\* save_output: json.dump writes the next piece of the text; after the
\* last one the file is closed and main goes on
SaveWrite ==
    /\ pc = "write"
    /\ LET text == json_dump(existing.items)
           n == Len(file.toks) + 1
       IN /\ file' = TextFile(SubSeq(text, 1, n))
          /\ pc' = IF n = Len(text) THEN AfterBatch ELSE "write"
          /\ pause' = IF n = Len(text) THEN Pause ELSE pause
    /\ UNCHANGED << inputs, history, run, error, existing, loaded, remaining,
                    batches, i, locals, result, exhausted, generated_count,
                    failed_lemmas >>

\* main: time.sleep(SLEEP_BETWEEN) returns and the next batch starts
SleepBetween ==
    /\ pc = "sleep_between"
    /\ i' = i + 1
    /\ attempt' = 1
    /\ pc' = "call"
    /\ pause' = 0
    /\ UNCHANGED << inputs, history, file, run, error, existing, loaded,
                    remaining, batches, response, result, slept,
                    last_outcome, last_hint, before, exhausted, calls,
                    generated_count, failed_lemmas >>

\* the same command is run a second time, after a first run that ended
\* with no failed lemma
Rerun ==
    /\ pc \in {"done", "returned"}
    /\ failed_lemmas = <<>>
    /\ run = 1
    /\ run' = 2
    /\ first_file' = file
    /\ pc' = "load"
    /\ existing' = EmptyDict
    /\ loaded' = EmptyDict
    /\ remaining' = <<>>
    /\ batches' = <<>>
    /\ i' = 0
    /\ result' = <<>>
    /\ exhausted' = {}
    /\ generated_count' = 0
    /\ UNCHANGED << inputs, file, error, locals, failed_lemmas, pause >>

Next ==
    \/ Load
    \/ Attempt
    \/ Wake
    \/ Merge
    \/ SaveOpen
    \/ SaveWrite
    \/ SleepBetween
    \/ Rerun

Spec == Init /\ [][Next]_vars

\* a step of a run of main
RunStep ==
    \/ Load
    \/ Attempt
    \/ Wake
    \/ Merge
    \/ SaveOpen
    \/ SaveWrite
    \/ SleepBetween

\* main is one sequential process: a run that can take a step takes it (a
\* call to the service returns or raises, a sleep ends, a write completes)
FairSpec == Spec /\ WF_vars(RunStep)

(***************************************************************************)
(* extract_lemmas on its own, over every vocabulary file of the bounds.    *)
(***************************************************************************)
ExtractInit ==
    /\ rows \in CsvFiles
    /\ lemmas = <<>>
    /\ all_lemmas = <<>>
    /\ count = 0
    /\ batch_size = 1
    /\ file = Missing
    /\ run = 1
    /\ pc = "extract"
    /\ error = ""
    /\ existing = EmptyDict
    /\ loaded = EmptyDict
    /\ remaining = <<>>
    /\ batches = <<>>
    /\ i = 0
    /\ attempt = 0
    /\ response = NoResponse
    /\ result = <<>>
    /\ slept = 0
    /\ last_outcome = ""
    /\ last_hint = NO_HINT
    /\ before = NoSleep
    /\ exhausted = {}
    /\ calls = 0
    /\ generated_count = 0
    /\ failed_lemmas = <<>>
    /\ pause = 0
    /\ first_file = Missing

\* main: all_lemmas = extract_lemmas(CSV_PATH)
Extract ==
    /\ pc = "extract"
    /\ LET got == extract_lemmas(rows) IN
       IF got.raised # ""
       THEN /\ Abort(got.raised)
            /\ UNCHANGED << lemmas, all_lemmas >>
       ELSE /\ lemmas' = got.lemmas
            /\ all_lemmas' = Ranks(got.lemmas)
            /\ pc' = "load"
            /\ error' = error
    /\ UNCHANGED << rows, count, batch_size, history, file, run, existing,
                    loaded, remaining, batches, i, locals, result, exhausted,
                    generated_count, failed_lemmas, pause >>

ExtractNext == Extract

ExtractSpec == ExtractInit /\ [][ExtractNext]_vars

(***************************************************************************)
(* Properties.                                                             *)
(***************************************************************************)
\* the keys this run has added to the in-memory store
AddedKeys == DictKeys(existing.items) \ DictKeys(loaded.items)

\* the output file holds a complete JSON object with these cards under key
OnDisk(key, cards) ==
    /\ file.kind = "text"
    /\ LET parsed == json_load(file.toks) IN
       /\ parsed.ok
       /\ parsed.type = "dict"
       /\ key \in DictKeys(parsed.items)
       /\ DictGet(parsed.items, key) = cards

C2_Durability ==
    pc \in {"sleep_between", "call", "backoff", "merge"} =>
        \A key \in AddedKeys : OnDisk(key, DictGet(existing.items, key))

\* the second batch is in its backoff sleep and the first one added a lemma
C2_Witness ==
    /\ pc = "backoff"
    /\ i = 2
    /\ AddedKeys # {}

C4_BackoffMonotone ==
    (pc = "backoff" /\ before.slept > 0) => slept >= before.slept

\* C4 as amended: the sleep after a failed attempt is at least as long as
\* the sleep after the previous failed attempt when that previous failure
\* was a parse error or another service error, or was a rate-limit signal
\* without a suggested wait followed by another rate-limit signal.
C4_BackoffMonotoneSameKind ==
    ( /\ pc = "backoff"
      /\ before.slept > 0
      /\ \/ before.outcome \in {"json_error", "api_error"}
         \/ /\ before.outcome = "rate_limit"
            /\ before.hint = NO_HINT
            /\ last_outcome = "rate_limit" )
    => slept >= before.slept

\* a rate-limit sleep taken from a suggested wait follows a default one
C4_Witness ==
    /\ pc = "backoff"
    /\ before.outcome = "rate_limit"
    /\ before.hint = NO_HINT
    /\ last_outcome = "rate_limit"
    /\ last_hint # NO_HINT
    /\ slept > before.slept

\* A candidate as the card record requires it: a mapping with a non-empty
\* sentence that contains the blank marker, a non-empty hint and a non-empty
\* list of accepted answers.
WellFormed(c) ==
    /\ c.sentence \in {"BLANK", "LISTBLANK"}
    /\ c.hint = "TEXT"
    /\ c.acceptedAnswers = "LIST"

\* the value under a lemma has at least one valid card
HasValidCard(value) ==
    /\ value.present
    /\ value.iterable
    /\ \E j \in DOMAIN value.items :
          value.items[j].isdict /\ WellFormed(value.items[j])

\* a non-empty list of well-formed cards
GoodCards(cards) ==
    /\ cards # <<>>
    /\ \A j \in DOMAIN cards : WellFormed(cards[j])

\* the lemmas of the batch that have a valid card in the response
ValidLemmas(data, batch) == { l \in Range(batch) : HasValidCard(data[l]) }

\* a parsable object in which some but not all lemmas of the batch have a
\* valid card
PartialResponse(resp, batch) ==
    /\ resp.kind = "json"
    /\ ValidLemmas(resp.data, batch) # {}
    /\ ValidLemmas(resp.data, batch) # Range(batch)

\* what a step does with a partial response
PartialBatchStep ==
    /\ (pc = "call" /\ PartialResponse(response', batches[i])) =>
          /\ pc' = "merge"
          /\ DictKeys(result') = ValidLemmas(response'.data, batches[i])
    /\ (pc = "merge" /\ PartialResponse(response, batches[i])) =>
          /\ pc' = "save"
          /\ DictKeys(existing'.items) =
                DictKeys(existing.items)
                    \cup ValidLemmas(response.data, batches[i])
          /\ failed_lemmas' =
                failed_lemmas \o SelectSeq(batches[i],
                    LAMBDA l : ~HasValidCard(response.data[l]))

\* C5 as stated: partial-batch survival.  When an attempt returns a parsable
\* object in which k of the n lemmas of the batch (1 <= k < n) have a valid
\* card, generate_batch returns exactly those k lemmas without another
\* call, the store gains exactly those k keys and the other lemmas are
\* appended to the failed list.
C5_PartialBatchSurvival ==
    [][PartialBatchStep]_vars

\* C6: card-record invariant of the store.  Every key this run adds to the
\* store, in memory and in the output file, and every key of a result about
\* to be merged, maps to a non-empty list of cards, each with a non-empty
\* sentence that contains the blank marker, a non-empty hint and a
\* non-empty list of accepted answers.
C6_CardRecordInvariant ==
    /\ \A j \in DOMAIN existing.items :
          existing.items[j].k \in AddedKeys => GoodCards(existing.items[j].v)
    /\ \A j \in DOMAIN file.toks :
          (file.toks[j].t = "entry" /\ file.toks[j].k \in AddedKeys)
              => GoodCards(file.toks[j].v)
    /\ pc = "merge" => \A j \in DOMAIN result : GoodCards(result[j].v)

\* a lemma whose response held a malformed candidate beside a valid one is
\* about to be merged, after an earlier batch has added a key to the store
C6_Witness ==
    /\ pc = "merge"
    /\ AddedKeys # {}
    /\ response.kind = "json"
    /\ \E l \in DictKeys(result) :
          \E j \in DOMAIN response.data[l].items :
              ~WellFormed(response.data[l].items[j])

\* C7 as stated: corrupt store recovery.  Whatever the output file holds,
\* load_existing returns a mapping and raises nothing, and the run never
\* ends with an exception caused by the content of the file.
C7_CorruptStoreRecovery ==
    /\ error \notin {"UnicodeDecodeError", "TypeError", "AttributeError"}
    /\ pc # "load" => loaded.type = "dict"

\* a step of save_output that keeps the file or completes the new content
AtomicSaveStep ==
    pc \in {"save", "write"} =>
        \/ file' = file
        \/ file' = TextFile(json_dump(existing.items))

\* C8 as stated: save atomicity.  No step of save_output leaves the output
\* file in a state other than its previous content or the complete new
\* mapping.
C8_SaveAtomicity ==
    [][AtomicSaveStep]_vars

\* C9 as stated: per-record validation never fails the batch.  An attempt
\* whose response is a parsable object ends in no handler and no backoff
\* sleep: generate_batch returns, with every lemma of the batch that has a
\* valid card in its result.
C9_ValidationNeverFailsBatch ==
    response.kind = "json" =>
        /\ pc = "merge"
        /\ last_outcome = ""
        /\ ValidLemmas(response.data, batches[i]) \subseteq DictKeys(result)

\* C10 as stated: exhaustion is not a process failure.  Once a batch of the
\* run has used up its attempts, the run does not end with an exception, it
\* can always go on until its summary, and at the summary the lemmas of the
\* batch are in the failed list and not in the store.
C10_ExhaustionNotFailure ==
    exhausted # {} =>
        /\ pc # "aborted"
        /\ pc = "done" \/ ENABLED Next
        /\ pc = "done" =>
              \A b \in exhausted : \A l \in Range(batches[b]) :
                  /\ l \in Range(failed_lemmas)
                  /\ l \notin DictKeys(existing.items)

\* the lemmas of a sequence are in the frequency order of the vocabulary
\* (a lemma is numbered by its rank), each at most once
InOrder(seq) == \A p, q \in DOMAIN seq : p < q => seq[p] < seq[q]

\* the concatenation of a sequence of sequences
RECURSIVE Concat(_)
Concat(seqs) == IF seqs = <<>> THEN <<>> ELSE Head(seqs) \o Concat(Tail(seqs))

\* what a service call may send, given the prompts of the batches so far
ResumeFilterStep ==
    calls' = calls + 1 =>
        /\ \A l \in Range(batches[i]) :
              /\ l \in Range(all_lemmas)
              /\ count > 0 =>
                    \E p \in 1..count : p <= Len(all_lemmas) /\ all_lemmas[p] = l
              /\ l \notin DictKeys(loaded.items)
        /\ InOrder(Concat(SubSeq(batches, 1, i)))

\* C11: resume filter.  Every lemma placed in a prompt sent to the service
\* is among the first `count` lemmas of the vocabulary (any of them when
\* count is 0) and was not a key of the store loaded at the start of the
\* run, and the lemmas sent so far are in the frequency order.
C11_ResumeFilter ==
    [][ResumeFilterStep]_vars

\* a call has been made in a run limited by --count whose loaded store
\* already had one of the targeted lemmas
C11_Witness ==
    /\ calls > 0
    /\ count > 0
    /\ count < Len(all_lemmas)
    /\ DictKeys(loaded.items) \cap Range(Target(all_lemmas, count)) # {}


\* the rows after the two header rows
Data == SubSeq(rows, 3, Len(rows))

\* the data rows that have a second column whose trimmed text is this one
RowsOf(text) ==
    { j \in DOMAIN Data :
        /\ Len(Data[j]) >= 2
        /\ Data[j][2].word = text.word
        /\ text.lead = 0
        /\ text.trail = 0 }

\* C12: dedup and order of extract_lemmas.  For a file with its two header
\* rows, the list returned has no duplicate entry, holds exactly the
\* trimmed non-empty second-column values of the rows after the headers,
\* and holds them in the order of their first occurrences; shorter rows and
\* the header rows contribute nothing.
C12_DedupAndOrder ==
    (pc = "load" /\ Len(rows) >= 2) =>
        /\ \A p, q \in DOMAIN lemmas : p # q => lemmas[p] # lemmas[q]
        /\ \A p \in DOMAIN lemmas :
              lemmas[p].word # 0 /\ RowsOf(lemmas[p]) # {}
        /\ \A j \in DOMAIN Data :
              (Len(Data[j]) >= 2 /\ Data[j][2].word # 0) =>
                  \E p \in DOMAIN lemmas : j \in RowsOf(lemmas[p])
        /\ \A p, q \in DOMAIN lemmas :
              p < q =>
                 \E j \in RowsOf(lemmas[p]) : \A k \in RowsOf(lemmas[q]) : j < k

\* a file where a padded value repeats an earlier one behind a blank value,
\* under a header row that names a word
C12_Witness ==
    /\ pc = "load"
    /\ Len(rows) = 2 + MaxRows
    /\ Len(rows[2]) = 2
    /\ Len(Data[1]) = 2 /\ Data[1][2] = Cell(0, 2, 0)
    /\ Len(Data[2]) = 2 /\ Data[2][2] = Cell(1, 0, 1)
    /\ Len(Data[3]) = 2 /\ Data[3][2] = Cell(1, 2, 1)
    /\ lemmas = << Cell(0, 2, 0) >>


\* a step of a run that keeps every key of the store, with its cards, and
\* merges only keys the store did not have
MonotonicStep ==
    run' = run =>
        /\ \A key \in DictKeys(existing.items) :
              /\ key \in DictKeys(existing'.items)
              /\ DictGet(existing'.items, key) = DictGet(existing.items, key)
        /\ pc = "merge" => DictKeys(result) \cap DictKeys(existing.items) = {}

\* C13: monotonic growth of the store.  No step of a run removes a key from
\* the in-memory store or changes the card list of a key that was loaded at
\* the start or added by an earlier batch, and a batch merges only keys
\* that were absent before it.
C13_MonotonicGrowth ==
    [][MonotonicStep]_vars

\* the second batch has been merged into a store that holds loaded keys and
\* a key of the first batch
C13_Witness ==
    /\ pc = "save"
    /\ i = 2
    /\ DictKeys(loaded.items) # {}
    /\ \E k1, k2 \in AddedKeys : k1 # k2


\* the batches are non-empty slices that make up `remaining`, all of the
\* batch size but the last, which may be shorter
IsPartition(bs, rem, size) ==
    /\ Concat(bs) = rem
    /\ \A b \in DOMAIN bs :
          /\ Len(bs[b]) >= 1
          /\ Len(bs[b]) <= size
          /\ b < Len(bs) => Len(bs[b]) = size

\* C14 as stated: batch partition.  For every batch size the command line
\* accepts, once main is past the construction of the batches they are a
\* partition of the remaining lemmas into contiguous slices of the batch
\* size, the last one possibly shorter.
C14_BatchPartition ==
    pc # "load" => IsPartition(batches, remaining, batch_size)


\* what follows a backoff sleep: the next attempt on the same batch
RetryAfterSleepStep ==
    pc = "backoff" =>
        /\ attempt < MAX_RETRIES
        /\ pc' = "call"
        /\ attempt' = attempt + 1
        /\ i' = i
        /\ batches' = batches

\* C15 as stated: every backoff sleep is followed by a retry.  A backoff
\* sleep is taken only after an attempt that is not the last one, and the
\* step after it starts the next attempt on the same batch.
C15_SleepThenRetry ==
    [][RetryAfterSleepStep]_vars


\* the inter-batch sleep in the steps of a run
InterBatchStep ==
    run' = run =>
        \* the sleep starts only at the end of a batch that is not the last
        /\ (pc' = "sleep_between" /\ pc # "sleep_between") =>
              /\ pc \in {"merge", "write"}
              /\ i < Len(batches)
              /\ i' = i
        \* the summary is reached only from the last batch, with no sleep
        /\ (pc' = "done" /\ pc # "done") =>
              /\ pc # "sleep_between"
              /\ i = Len(batches)
        \* one sleep of the fixed duration, then the first call of the next
        \* batch
        /\ pc = "sleep_between" =>
              /\ pause = SLEEP_BETWEEN
              /\ pause * MAX_RPM >= 60
              /\ pc' = "call"
              /\ i' = i + 1
              /\ calls' = 0
        \* no other step moves to another batch, and nothing else sleeps
        /\ (i' # i /\ i >= 1) => pc = "sleep_between"
        /\ pc # "sleep_between" => pause = 0

\* C16: inter-batch delay.  After every batch that is not the last one,
\* whether it succeeded, was partial or was exhausted, main takes one
\* inter-batch sleep of SLEEP_BETWEEN seconds (no less than a minute divided
\* by MAX_RPM), and the first call of the next batch comes only when that
\* sleep is over; after the last batch main goes to its summary without
\* sleeping.
C16_InterBatchDelay ==
    [][InterBatchStep]_vars

\* the second batch is about to make its first call, after the sleep that
\* followed an exhausted first batch
C16_Witness ==
    /\ pc = "call"
    /\ i = 2
    /\ calls = 0
    /\ 1 \in exhausted


\* C17 as stated: rate-limit wait.  A rate-limit error at attempt a (1 <= a
\* <= 5) is followed by a sleep: of 30 x a seconds when the error text
\* carries no suggested wait, and otherwise of a duration taken from the
\* suggested wait and no shorter than it (hints are in tenths of a second).
C17_RateLimitWait ==
    response.kind = "rate_limit" =>
        /\ pc = "backoff"
        /\ attempt \in 1..5
        /\ IF Len(response.hint) = 1
           THEN /\ slept * 10 >= response.hint[1]
                /\ slept \in {(response.hint[1] \div 10) + 5, 30 * attempt}
           ELSE slept = 30 * attempt


\* the keys of a response object that are not lemmas of the batch
Extras(resp, batch) ==
    { key \in Keys \ Range(batch) : resp.data[key].present }

\* the response without its extra keys
WithoutExtras(resp, batch) ==
    [resp EXCEPT !.data =
        [key \in Keys |-> IF key \in Range(batch) THEN @[key] ELSE Absent]]

\* what a step does with the extra keys of a response
ExtrasStep ==
    /\ (pc = "call" /\ response'.kind = "json") =>
          /\ Outcome(response', batches[i])
                = Outcome(WithoutExtras(response', batches[i]), batches[i])
          /\ pc' = "merge" =>
                /\ result' =
                      ValidateBatch(WithoutExtras(response', batches[i]).data,
                                    batches[i], <<>>).result
                /\ DictKeys(result') \subseteq Range(batches[i])
                /\ DictKeys(result') \cap Extras(response', batches[i]) = {}
    /\ pc = "merge" =>
          DictKeys(existing'.items) \ DictKeys(existing.items)
              \subseteq Range(batches[i])

\* C18: extras are ignored.  A key of the response object that is not a
\* lemma of the batch changes neither the way the attempt ends nor the
\* result of the batch, and the keys a batch adds to the store are lemmas of
\* that batch.
C18_ExtrasIgnored ==
    [][ExtrasStep]_vars

\* generate_batch has returned cards for a response that held, beside them,
\* a number under a key that is no lemma and under a lemma of a later batch
C18_Witness ==
    /\ pc = "merge"
    /\ result # <<>>
    /\ response.kind = "json"
    /\ response.data[ExtraKey] = Scalar
    /\ i < Len(batches)
    /\ \E l \in Range(batches[i + 1]) : response.data[l] = Scalar

\* C19 as stated: completion accounting.  At the summary every lemma of
\* `remaining` is either a key the run added to the store or an entry of
\* the failed list, never both and never neither; no lemma is twice in the
\* failed list; generated_count is the number of keys added; and
\* generated_count plus the length of the failed list is the length of
\* `remaining`.
C19_CompletionAccounting ==
    pc = "done" =>
        /\ \A l \in Range(remaining) :
              (l \in AddedKeys) # (l \in Range(failed_lemmas))
        /\ \A p, q \in DOMAIN failed_lemmas :
              p # q => failed_lemmas[p] # failed_lemmas[q]
        /\ generated_count = Cardinality(AddedKeys)
        /\ generated_count + Len(failed_lemmas) = Len(remaining)


\* the run has ended: at its summary, at the early return, or with an
\* exception
Terminated == pc \in {"done", "returned", "aborted"}

\* the way a batch goes through its retry loop
RetryLoopStep ==
    /\ calls' <= 5
    /\ attempt' <= 5
    \* the loop is left by a return of generate_batch, with the result of
    \* an attempt or, after 5 failed attempts, with the empty result
    /\ (pc \in {"call", "backoff"} /\ pc' \notin {"call", "backoff"}) =>
          /\ pc' = "merge"
          /\ \/ i \in exhausted' /\ result' = <<>> /\ calls' = 5
             \/ i \notin exhausted' /\ response'.kind = "json"
    \* and a batch that has left it is not entered again
    /\ run' = run =>
          /\ i' \in {i, i + 1}
          /\ i' <= Len(batches')
          /\ (pc \notin {"call", "backoff"} /\ pc' \in {"call", "backoff"}) =>
                (i' = i + 1 /\ calls' = 0)

\* C20 as stated: termination.  Whatever the service answers, a run of main
\* ends; each batch makes at most 5 calls, leaves its retry loop by a
\* return of generate_batch that is a success or an exhaustion, and is
\* never entered again, so that a run makes at most 5 calls per batch.
C20_Termination ==
    /\ [][RetryLoopStep]_vars
    /\ (pc = "load") ~> Terminated


====
